---- MODULE Spec2Model ----
(***************************************************************************)
(* CloudFormation custom-resource handlers of sumologic-app-utils/src/api.py *)
(* (Collector, Connections, AWSSource, HTTPSource, App, AWSTrail) run       *)
(* against a remote service.  One behaviour exercises one handler class:    *)
(* lifecycle calls are issued one at a time, each call advances from one    *)
(* remote request to the next, and other clients of the remote service may  *)
(* change it between two requests.                                          *)
(***************************************************************************)
EXTENDS Integers, Sequences, FiniteSets, TLC

\* ---------------------------------------------------------------- bounds
MaxId == 2
MaxEtag == 1
MaxPolls == 2
MaxClock == 1
MaxLen == 3
MaxProps == 2

\* ------------------------------------------------------- program constants
page_limit == 300
source_limit == 300
None == 0
personal_folder_id == -2

Handlers == {"Collector", "HTTPSource", "AWSSource", "Connections", "App", "AWSTrail"}
\* the handlers whose entities are fetched with an etag and written back
EtagHandlers == {"Collector", "HTTPSource", "AWSSource", "Connections"}
\* the handlers whose create looks the name up in a listing
ListingHandlers == {"Collector", "HTTPSource", "AWSSource"}
Names == {"a", "b"}

ENTERPRISE_ONLY_APPS == {"Amazon GuardDuty Benchmark", "Global Intelligence for AWS CloudTrail"}
\* the app names that contain the text "Amazon QuickStart"
QuickStartApps == {"Amazon QuickStart - Cloudtrail"}
AppNames == {"Amazon GuardDuty Benchmark", "Amazon QuickStart - Cloudtrail"}
qs_folder_name == "SumoLogic Amazon QuickStart Apps"

duplicate == "collectors.validation.name.duplicate"
name_already_exists == "connection:name_already_exists"
duplicate_content == "content:duplicate_content"

VARIABLES
    h,        \* the handler class the lifecycle events are dispatched to
    remote,   \* the remote objects of the handler's kind
    pad,      \* objects of other names that the remote lists before them
    nextId,   \* the next identifier the remote service hands out
    clock,    \* the time the folder names are stamped with
    pc,       \* where the running lifecycle call stands ("idle": none runs)
    call,     \* the running (or last) lifecycle call and its arguments
    loc,      \* the running call's local variables
    ret,      \* how the last call ended
    prev,     \* the call before it, when both are creates of one name, and
              \* the identifier the remote would hand out next when it ended
    clean,    \* no other client has changed the remote since `call` began
    trace,    \* the remote requests the running (or last) call has issued
    fault,    \* the last exception the remote client raised in this call
    resource_type,  \* ResourceFactory.resource_type: handler class by name
    registered,     \* the class last handed to register, by name
    event,    \* the lifecycle event the dispatcher has received
    out       \* what the last register, get_resource or extract_params gave

vars == <<h, remote, pad, nextId, clock, pc, call, loc, ret, prev, clean, trace, fault,
          resource_type, registered, event, out>>
\* the dispatcher's side, which no lifecycle call touches
dispatcher == <<resource_type, registered, event, out>>
\* the running call and the remote, which the dispatcher's side does not touch
lifecycle == <<remote, pad, nextId, clock, pc, call, loc, ret, prev, clean, trace, fault>>

\* ------------------------------------------------------------ exceptions
\* resp: "absent" (the exception has no attribute response), "None" (it has
\* one, holding None, as a transport error has) or "http" (a response).
Exc(r, s, c) == [resp |-> r, status |-> s, code |-> c]
NoErr == Exc("absent", 0, "-")
HttpErr(s, c) == Exc("http", s, c)
AttributeError == Exc("absent", 0, "AttributeError")
TypeError == Exc("absent", 0, "TypeError")
KeyError == Exc("absent", 0, "KeyError")
\* what any request may fail with, whatever the state of the remote
AnyFaults == {Exc("None", 0, "ConnectionError"), Exc("absent", 0, "ValueError"),
              HttpErr(500, "internal.error")}
NotFound == HttpErr(404, "not.found")
Stale == HttpErr(412, "precondition.failed")
TrailNotFound == HttpErr(400, "TrailNotFoundException")
hasattr_response(e) == e.resp # "absent"

\* ---------------------------------------------------------- remote state
Obj(i, n, t, p) == [id |-> i, name |-> n, etag |-> t, parent |-> p]
ByName(n) == {o \in remote : o.name = n}
ById(i) == {o \in remote : o.id = i}
Exists(i) == ById(i) # {}
TheObj(i) == CHOOSE o \in remote : o.id = i
\* the position of an object in the remote listing: the objects of other
\* names first, then these by identifier
Position(o) == pad + Cardinality({x \in remote : x.id < o.id})
ListingLen == pad + Cardinality(remote)
\* a listing that heeds no offset (a variant the paging property must reject)
Page_first(offset, limit) == {o \in remote : Position(o) < limit}
Page(offset, limit) == {o \in remote : Position(o) >= offset /\ Position(o) < offset + limit}
PageEmpty(offset) == offset >= ListingLen
FirstOf(S) == CHOOSE o \in S : \A x \in S : Position(o) <= Position(x)

\* ------------------------------------------------------------ the calls
Call(op, n, i, r, a) == [op |-> op, name |-> n, id |-> i, rods |-> r, api |-> a]
NoCall == Call("none", "-", None, FALSE, "-")
Pending == [kind |-> "none", id |-> None, err |-> NoErr]
NoPrev == [op |-> "none", name |-> "-", id |-> None, nextId |-> 0]
Locals == [offset |-> 0, etag |-> 0, polls |-> 0, k |-> 0, terminal |-> "-",
           status |-> "-", folder |-> None, parent |-> None, children |-> {}, stamp |-> 0]

\* a lifecycle call begins: the dispatcher builds a fresh handler and calls it
Enter(c) ==
    /\ pc = "idle"
    /\ call' = c
    /\ prev' = IF clean /\ call.op = "create" /\ ret.kind = "result"
                  /\ c.op = "create" /\ c.name = call.name /\ c.api = call.api
               THEN [op |-> call.op, name |-> call.name, id |-> ret.id, nextId |-> nextId]
               ELSE NoPrev
    /\ clean' = TRUE

Same == UNCHANGED <<call, prev, clean>>

\* the call ends (its locals die with it), or goes on to its next request
Return(i) ==
    pc' = "idle" /\ loc' = Locals /\ ret' = [kind |-> "result", id |-> i, err |-> NoErr]
ReturnNone ==
    pc' = "idle" /\ loc' = Locals /\ ret' = [kind |-> "empty", id |-> None, err |-> NoErr]
Raise(e) ==
    pc' = "idle" /\ loc' = Locals /\ ret' = [kind |-> "raise", id |-> None, err |-> e]
Goto(p, l) == pc' = p /\ loc' = l /\ ret' = Pending

\* ------------------------------------------------- other remote clients
EnvNames == IF h = "App" THEN {<<n, clock>> : n \in AppNames \cup {qs_folder_name}} ELSE Names
EnvParent == IF h = "App" THEN personal_folder_id ELSE None
Disturbed == clean' = FALSE /\ prev' = NoPrev

EnvCreate ==
    /\ nextId <= MaxId
    /\ \E n \in EnvNames :
        /\ ByName(n) = {}
        /\ remote' = remote \cup {Obj(nextId, n, 0, EnvParent)}
    /\ nextId' = nextId + 1
    /\ Disturbed
    /\ UNCHANGED <<dispatcher, h, pad, clock, pc, call, loc, ret, trace, fault>>

EnvDelete ==
    /\ \E o \in remote : remote' = remote \ {o}
    /\ Disturbed
    /\ UNCHANGED <<dispatcher, h, pad, nextId, clock, pc, call, loc, ret, trace, fault>>

EnvModify ==
    /\ h \in EtagHandlers
    /\ \E o \in remote :
        /\ o.etag < MaxEtag
        /\ remote' = (remote \ {o}) \cup {[o EXCEPT !.etag = @ + 1]}
    /\ Disturbed
    /\ UNCHANGED <<dispatcher, h, pad, nextId, clock, pc, call, loc, ret, trace, fault>>

Tick ==
    /\ h = "App"
    /\ clock < MaxClock
    /\ clock' = clock + 1
    /\ UNCHANGED <<dispatcher, h, remote, pad, nextId, pc, call, loc, ret, prev, clean, trace, fault>>

\* ------------------------------------------- what the remote may answer
\* to a create under the name n: any fault, and "the name is taken" when it is
CreateFaults(n, dup) == AnyFaults \cup (IF ByName(n) # {} THEN {HttpErr(400, dup)} ELSE {})
\* to a request on the entity i
EntityFaults(i) == AnyFaults \cup (IF Exists(i) THEN {} ELSE {NotFound})
\* to a write of the entity i under the name n with the etag t
WriteFaults(i, n, t, dup) ==
    EntityFaults(i)
    \cup (IF Exists(i) /\ TheObj(i).etag # t THEN {Stale} ELSE {})
    \cup (IF \E o \in ByName(n) : o.id # i THEN {HttpErr(400, dup)} ELSE {})
WriteAccepted(i, n, t) ==
    /\ Exists(i)
    /\ TheObj(i).etag = t
    /\ \A o \in ByName(n) : o.id = i
    /\ t < MaxEtag
\* to a request on the trail named n
TrailFaults(n) == AnyFaults \cup (IF ByName(n) = {} THEN {TrailNotFound} ELSE {})
\* the remote creates the object n and answers with its identifier
Created(n, p) ==
    /\ ByName(n) = {}
    /\ nextId <= MaxId
    /\ remote' = remote \cup {Obj(nextId, n, 0, p)}
    /\ nextId' = nextId + 1
Refused == UNCHANGED <<remote, nextId>>

\* ------------------------------------------------------------ Collector
\* the except clause of create: look the name up, or raise
OnDuplicate(e, dup, lookup) ==
    IF hasattr_response(e)
    THEN IF e.resp = "None" THEN Raise(AttributeError)
         ELSE IF e.code = dup THEN Goto(lookup, Locals)
         ELSE Raise(e)
    ELSE Raise(e)

Collector_create ==
    /\ h = "Collector"
    /\ \E n \in Names :
        /\ Enter(Call("create", n, None, FALSE, "-"))
        /\ trace' = <<"create_collector">>
        /\ \/ Created(n, None) /\ fault' = NoErr /\ Return(nextId)
           \/ \E e \in CreateFaults(n, duplicate) :
                fault' = e /\ Refused /\ OnDuplicate(e, duplicate, "Collector._get_collector_by_name")
    /\ UNCHANGED <<dispatcher, h, pad, clock>>

\* one page of the listing: the collector of that name, the next page, or none
Collector_get_collector_by_name ==
    /\ pc = "Collector._get_collector_by_name"
    /\ trace' = trace \o <<"collectors">>
    /\ \/ /\ fault' = fault
          /\ LET found == {o \in Page(loc.offset, page_limit) : o.name = call.name} IN
             IF PageEmpty(loc.offset)
             THEN Raise(Exc("absent", 0, "Collector not found"))
             ELSE IF found # {}
             THEN Return(FirstOf(found).id)
             ELSE Goto(pc, [loc EXCEPT !.offset = @ + page_limit])
       \/ \E e \in AnyFaults : fault' = e /\ Raise(e)
    /\ Same
    /\ UNCHANGED <<dispatcher, h, remote, pad, nextId, clock>>

\* update, first half: fetch the entity and its etag
Sumo_update_fetch(hh, request, next) ==
    /\ h = hh
    /\ \E i \in 1..MaxId, n \in Names :
        /\ Enter(Call("update", n, i, FALSE, "-"))
        /\ trace' = <<request>>
        /\ \/ /\ Exists(i)
              /\ fault' = NoErr
              /\ Goto(next, [Locals EXCEPT !.etag = TheObj(i).etag])
           \/ \E e \in EntityFaults(i) : fault' = e /\ Raise(e)
    /\ UNCHANGED <<dispatcher, h, remote, pad, nextId, clock>>

\* update, second half: write the entity back with the etag fetched
Sumo_update_write(here, request) ==
    /\ pc = here
    /\ trace' = trace \o <<request>>
    /\ \/ /\ WriteAccepted(call.id, call.name, loc.etag)
          /\ remote' = (remote \ ById(call.id))
                       \cup {[TheObj(call.id) EXCEPT !.name = call.name, !.etag = @ + 1]}
          /\ fault' = NoErr
          /\ Return(call.id)
       \/ \E e \in WriteFaults(call.id, call.name, loc.etag, duplicate) :
            fault' = e /\ Raise(e) /\ remote' = remote
    /\ Same
    /\ UNCHANGED <<dispatcher, h, pad, nextId, clock>>

\* the handlers of the log platform delete only on remove_on_delete_stack
Sumo_delete(hh, request) ==
    /\ h = hh
    /\ \E i \in 1..MaxId, r \in BOOLEAN :
        /\ Enter(Call("delete", "-", i, r, "-"))
        /\ IF r
           THEN /\ trace' = <<request>>
                /\ \/ /\ Exists(i)
                      /\ remote' = remote \ ById(i)
                      /\ fault' = NoErr
                      /\ ReturnNone
                   \/ \E e \in EntityFaults(i) : fault' = e /\ Raise(e) /\ remote' = remote
           ELSE /\ trace' = <<>>
                /\ fault' = NoErr
                /\ remote' = remote
                /\ ReturnNone
    /\ UNCHANGED <<dispatcher, h, pad, nextId, clock>>

Collector_update_fetch == Sumo_update_fetch("Collector", "collector", "Collector.update")
Collector_update == Sumo_update_write("Collector.update", "update_collector")
Collector_delete == Sumo_delete("Collector", "delete_collector")

\* ---------------------------------------------------- HTTPSource, AWSSource
Source_create(hh, lookup) ==
    /\ h = hh
    /\ \E n \in Names :
        /\ Enter(Call("create", n, None, FALSE, "-"))
        /\ trace' = <<"create_source">>
        /\ \/ Created(n, None) /\ fault' = NoErr /\ Return(nextId)
           \/ \E e \in CreateFaults(n, duplicate) :
                fault' = e /\ Refused /\ OnDuplicate(e, duplicate, lookup)
    /\ UNCHANGED <<dispatcher, h, pad, clock>>

\* the scan of the first page of the collector's sources for the name
Source_lookup(here) ==
    /\ pc = here
    /\ trace' = trace \o <<"sources">>
    /\ \/ /\ fault' = fault
          /\ LET found == {o \in Page(0, source_limit) : o.name = call.name}
             IN  IF found = {} THEN Return(None) ELSE Return(FirstOf(found).id)
       \/ \E e \in AnyFaults : fault' = e /\ Raise(e)
    /\ Same
    /\ UNCHANGED <<dispatcher, h, remote, pad, nextId, clock>>

AWSSource_create == Source_create("AWSSource", "AWSSource.sources")
AWSSource_sources == Source_lookup("AWSSource.sources")
AWSSource_update_fetch == Sumo_update_fetch("AWSSource", "source", "AWSSource.update")
AWSSource_update == Sumo_update_write("AWSSource.update", "update_source")
AWSSource_delete == Sumo_delete("AWSSource", "delete_source")

HTTPSource_create == Source_create("HTTPSource", "HTTPSource.sources")
HTTPSource_sources == Source_lookup("HTTPSource.sources")
HTTPSource_update_fetch == Sumo_update_fetch("HTTPSource", "source", "HTTPSource.update")
HTTPSource_update == Sumo_update_write("HTTPSource.update", "update_source")
HTTPSource_delete == Sumo_delete("HTTPSource", "delete_source")

\* ----------------------------------------------------------- Connections
\* the "id" of an error body names the error, not a connection; it may be absent
ErrorBodyId == -1
ErrorBodyIds == {None, ErrorBodyId}

\* the except clause of create: the id of the error body on a taken name
Connections_except(e) ==
    IF hasattr_response(e)
    THEN IF e.resp = "None" THEN Raise(AttributeError)
         ELSE IF e.code = name_already_exists
         THEN \E i \in ErrorBodyIds : Return(i)
         ELSE Return(None)
    ELSE Raise(e)

Connections_create ==
    /\ h = "Connections"
    /\ \E n \in Names :
        /\ Enter(Call("create", n, None, FALSE, "-"))
        /\ trace' = <<"create_connection">>
        /\ \/ Created(n, None) /\ fault' = NoErr /\ Return(nextId)
           \/ \E e \in CreateFaults(n, name_already_exists) :
                fault' = e /\ Refused /\ Connections_except(e)
    /\ UNCHANGED <<dispatcher, h, pad, clock>>

Connections_update_fetch == Sumo_update_fetch("Connections", "connection", "Connections.update")

\* the connection is handed to update_collector, which finds no collector in it
Connections_update ==
    /\ pc = "Connections.update"
    /\ trace' = trace \o <<"update_collector">>
    /\ \E e \in AnyFaults \cup {KeyError} : fault' = e /\ Raise(e)
    /\ Same
    /\ UNCHANGED <<dispatcher, h, remote, pad, nextId, clock>>

Connections_delete == Sumo_delete("Connections", "delete_connection")

\* -------------------------------------------------------------- AWSTrail
AWSTrail_create ==
    /\ h = "AWSTrail"
    /\ \E n \in Names :
        /\ Enter(Call("create", n, None, FALSE, "-"))
        /\ trace' = <<"create_trail">>
        /\ \/ /\ Created(n, None)
              /\ fault' = NoErr
              /\ Goto("AWSTrail.start_logging", [Locals EXCEPT !.folder = nextId])
           \/ \E e \in CreateFaults(n, "TrailAlreadyExistsException") :
                fault' = e /\ Refused /\ Raise(e)
    /\ UNCHANGED <<dispatcher, h, pad, clock>>

AWSTrail_update ==
    /\ h = "AWSTrail"
    /\ \E n \in Names :
        /\ Enter(Call("update", n, None, FALSE, "-"))
        /\ trace' = <<"update_trail">>
        /\ \/ /\ ByName(n) # {}
              /\ fault' = NoErr
              /\ Goto("AWSTrail.start_logging", [Locals EXCEPT !.folder = FirstOf(ByName(n)).id])
           \/ \E e \in TrailFaults(n) : fault' = e /\ Raise(e)
    /\ UNCHANGED <<dispatcher, h, remote, pad, nextId, clock>>

\* start_logging(Name=trail_name), then the trail's ARN is returned
AWSTrail_start_logging ==
    /\ pc = "AWSTrail.start_logging"
    /\ trace' = trace \o <<"start_logging">>
    /\ \/ ByName(call.name) # {} /\ fault' = NoErr /\ Return(loc.folder)
       \/ \E e \in TrailFaults(call.name) : fault' = e /\ Raise(e)
    /\ Same
    /\ UNCHANGED <<dispatcher, h, remote, pad, nextId, clock>>

\* delete takes no remove_on_delete_stack: the flag lands in **kwargs
AWSTrail_delete ==
    /\ h = "AWSTrail"
    /\ \E n \in Names, r \in BOOLEAN :
        /\ Enter(Call("delete", n, None, r, "-"))
        /\ trace' = <<"delete_trail">>
        /\ \/ /\ ByName(n) # {}
              /\ remote' = remote \ ByName(n)
              /\ fault' = NoErr
              /\ ReturnNone
           \/ \E e \in TrailFaults(n) : fault' = e /\ Raise(e) /\ remote' = remote
    /\ UNCHANGED <<dispatcher, h, pad, nextId, clock>>

\* ------------------------------------------------------------------- App
NotEntitled == Exc("absent", 0, "available to Enterprise or Trial Account Type only")
Children == {[id |-> o.id, name |-> o.name] : o \in {x \in remote : x.parent = personal_folder_id}}
AfterProbe == IF call.api = "install" THEN "App.get_personal_folder" ELSE "App._get_app_content"

\* create(appname, source_params, appid): the install api with an appid
App_create_call ==
    /\ h = "App"
    /\ \E n \in AppNames, a \in {"install", "import"} :
        Enter(Call("create", n, None, FALSE, a))
    /\ trace' = <<>>
    /\ fault' = NoErr
    /\ Goto("App.create", Locals)
    /\ UNCHANGED <<dispatcher, h, remote, pad, nextId, clock>>

\* an update that creates without deleting (a variant the identity property must reject)
App_update_in_place ==
    /\ h = "App"
    /\ \E i \in 1..MaxId, n \in AppNames, a \in {"install", "import"} :
        Enter(Call("update", n, i, TRUE, a))
    /\ trace' = <<>>
    /\ fault' = NoErr
    /\ Goto("App.create", Locals)
    /\ UNCHANGED <<dispatcher, h, remote, pad, nextId, clock>>

\* update deletes the app folder, whatever the stack asked, and creates again
App_update ==
    /\ h = "App"
    /\ \E i \in 1..MaxId, n \in AppNames, a \in {"install", "import"} :
        /\ Enter(Call("update", n, i, TRUE, a))
        /\ trace' = <<"delete_folder">>
        /\ \/ /\ Exists(i)
              /\ remote' = remote \ ById(i)
              /\ fault' = NoErr
              /\ Goto("App.create", Locals)
           \/ \E e \in EntityFaults(i) : fault' = e /\ Raise(e) /\ remote' = remote
    /\ UNCHANGED <<dispatcher, h, pad, nextId, clock>>

App_delete == Sumo_delete("App", "delete_folder")

\* a create that asks for no entitlement (a variant the probe property must reject)
App_create_unprobed ==
    /\ pc = "App.create"
    /\ Goto(AfterProbe, loc)
    /\ Same
    /\ UNCHANGED <<dispatcher, h, remote, pad, nextId, clock, trace, fault>>

\* appname in ENTERPRISE_ONLY_APPS and not is_enterprise_or_trial_account()
App_create ==
    /\ pc = "App.create"
    /\ IF call.name \in ENTERPRISE_ONLY_APPS
       THEN Goto("SumoResource.search_job", loc)
       ELSE Goto(AfterProbe, loc)
    /\ Same
    /\ UNCHANGED <<dispatcher, h, remote, pad, nextId, clock, trace, fault>>

\* the except clause of the probe: NoErr when it answers False, or the
\* exception that leaves it
ProbeExcept(e) ==
    IF hasattr_response(e)
    THEN IF e.resp = "None" THEN AttributeError
         ELSE IF e.status = 403 THEN NoErr ELSE e
    ELSE e

SearchFaults == AnyFaults \cup {HttpErr(403, "forbidden")}

\* what create does with the probe's answer
Probed(answer) == IF answer THEN Goto(AfterProbe, loc) ELSE Raise(NotEntitled)

ProbeFailed(e) ==
    /\ fault' = e
    /\ IF ProbeExcept(e) = NoErr THEN Probed(FALSE) ELSE Raise(ProbeExcept(e))

is_enterprise_or_trial_account ==
    /\ pc = "SumoResource.search_job"
    /\ trace' = trace \o <<"search_job">>
    /\ \/ fault' = fault /\ Goto("SumoResource.search_job_status", loc)
       \/ \E e \in SearchFaults : ProbeFailed(e)
    /\ Same
    /\ UNCHANGED <<dispatcher, h, remote, pad, nextId, clock>>

is_enterprise_or_trial_account_status ==
    /\ pc = "SumoResource.search_job_status"
    /\ trace' = trace \o <<"search_job_status">>
    /\ \/ \E pendingErrors \in 0..1 : fault' = fault /\ Probed(~(pendingErrors > 0))
       \/ \E e \in SearchFaults : ProbeFailed(e)
    /\ Same
    /\ UNCHANGED <<dispatcher, h, remote, pad, nextId, clock>>

\* --- create_by_install_api
App_get_personal_folder ==
    /\ pc = "App.get_personal_folder"
    /\ trace' = trace \o <<"get_personal_folder">>
    /\ \/ /\ fault' = fault
          /\ IF call.name \in QuickStartApps
             THEN Goto("App._create_or_fetch_quickstart_apps_parent_folder",
                       [loc EXCEPT !.children = Children, !.stamp = clock])
             ELSE Goto("App.install_app", [loc EXCEPT !.parent = personal_folder_id])
       \/ \E e \in AnyFaults : fault' = e /\ Raise(e)
    /\ Same
    /\ UNCHANGED <<dispatcher, h, remote, pad, nextId, clock>>

\* the except clause of the parent folder: the child of that name, or nothing
quickstart_except(e, folder_name) ==
    IF hasattr_response(e)
    THEN IF e.resp = "None" THEN Raise(AttributeError)
         ELSE LET found == {c \in loc.children : c.name = folder_name} IN
              Goto("App.install_app",
                   [loc EXCEPT !.parent = IF e.code = duplicate_content /\ found # {}
                                          THEN (CHOOSE c \in found : TRUE).id ELSE None])
    ELSE Raise(e)

App_create_or_fetch_quickstart_apps_parent_folder ==
    /\ pc = "App._create_or_fetch_quickstart_apps_parent_folder"
    /\ trace' = trace \o <<"create_folder">>
    /\ LET folder_name == <<qs_folder_name, loc.stamp>> IN
       \/ /\ Created(folder_name, personal_folder_id)
          /\ fault' = fault
          /\ Goto("App.install_app", [loc EXCEPT !.parent = nextId])
       \/ \E e \in CreateFaults(folder_name, duplicate_content) :
            fault' = e /\ Refused /\ quickstart_except(e, folder_name)
    /\ Same
    /\ UNCHANGED <<dispatcher, h, pad, clock>>

\* the install job: k answers InProgress, then the terminal one
App_install_app ==
    /\ pc = "App.install_app"
    /\ trace' = trace \o <<"install_app">>
    /\ \/ \E k \in 0..MaxPolls :
            /\ fault' = fault
            /\ \/ /\ Created(<<call.name, -nextId>>, loc.parent)
                  /\ Goto("App._wait_for_app_install",
                          [loc EXCEPT !.k = k, !.terminal = "Success", !.folder = nextId])
               \/ /\ Refused
                  /\ Goto("App._wait_for_app_install",
                          [loc EXCEPT !.k = k, !.terminal = "Failed"])
       \/ \E e \in AnyFaults : fault' = e /\ Raise(e) /\ Refused
    /\ Same
    /\ UNCHANGED <<dispatcher, h, pad, clock>>

\* what the status endpoint answers to the poll that follows `polls` polls
JobStatus(polls, k, terminal) == IF polls < k THEN "InProgress" ELSE terminal
\* a loop that looks at no status (a variant the polling property must reject)
waiting_never(status) == FALSE
waiting(status) == status = "InProgress"

\* one turn of the loop: poll, then sleep, and leave once not waiting
Poll(here, request, after) ==
    /\ pc = here
    /\ trace' = trace \o <<request>>
    /\ \/ LET status == JobStatus(loc.polls, loc.k, loc.terminal) IN
          /\ fault' = fault
          /\ Goto(IF waiting(status) THEN here ELSE after,
                  [loc EXCEPT !.polls = @ + 1, !.status = status])
       \/ \E e \in AnyFaults : fault' = e /\ Raise(e)
    /\ Same
    /\ UNCHANGED <<dispatcher, h, remote, pad, nextId, clock>>

App_wait_for_app_install ==
    Poll("App._wait_for_app_install", "check_app_install_status", "App.create_by_install_api")

\* a create that returns None leaves update's tuple assignment with a TypeError
ReturnNoResult == IF call.op = "update" THEN Raise(TypeError) ELSE ReturnNone

\* response.raise_for_status() raises for a status of 400 and above
raise_for_status(http, otherwise) ==
    IF http >= 400 THEN Raise(HttpErr(http, "HTTPError")) ELSE otherwise

App_create_by_install_api ==
    /\ pc = "App.create_by_install_api"
    /\ IF loc.status = "Success"
       THEN Return(loc.folder)
       ELSE \E http \in {200, 500} : raise_for_status(http, ReturnNoResult)
    /\ Same
    /\ UNCHANGED <<dispatcher, h, remote, pad, nextId, clock, trace, fault>>

\* --- create_by_import_api
App_get_app_content ==
    /\ pc = "App._get_app_content"
    /\ trace' = trace \o <<"requests.get">>
    /\ \/ fault' = fault /\ Goto("App.create_by_import_api", [loc EXCEPT !.stamp = clock])
       \/ \E e \in AnyFaults : fault' = e /\ Raise(e)
    /\ Same
    /\ UNCHANGED <<dispatcher, h, remote, pad, nextId, clock>>

App_create_by_import_api ==
    /\ pc = "App.create_by_import_api"
    /\ trace' = trace \o <<"get_personal_folder">>
    /\ \/ fault' = fault /\ Goto("App._get_app_folder", [loc EXCEPT !.parent = personal_folder_id])
       \/ \E e \in AnyFaults : fault' = e /\ Raise(e)
    /\ Same
    /\ UNCHANGED <<dispatcher, h, remote, pad, nextId, clock>>

\* the ContentId(...) that the message of a create_folder error may carry
ContentIds(e, n) ==
    IF e.code = duplicate_content THEN {o.id : o \in ByName(n)} \cup {None} ELSE {None}

\* the except clause of the app folder: the ContentId of the message, or None
get_app_folder_except(e, n) ==
    IF hasattr_response(e)
    THEN IF e.resp = "None" THEN Raise(AttributeError)
         ELSE \E matched \in ContentIds(e, n) :
                Goto("App.import_content", [loc EXCEPT !.folder = matched])
    ELSE Raise(e)

App_get_app_folder ==
    /\ pc = "App._get_app_folder"
    /\ trace' = trace \o <<"create_folder">>
    /\ LET name == <<call.name, loc.stamp>> IN
       \/ /\ Created(name, personal_folder_id)
          /\ fault' = fault
          /\ Goto("App.import_content", [loc EXCEPT !.folder = nextId])
       \/ \E e \in CreateFaults(name, duplicate_content) :
            fault' = e /\ Refused /\ get_app_folder_except(e, name)
    /\ Same
    /\ UNCHANGED <<dispatcher, h, pad, clock>>

App_import_content ==
    /\ pc = "App.import_content"
    /\ trace' = trace \o <<"import_content">>
    /\ \/ \E k \in 0..MaxPolls, t \in {"Success", "Failed"} :
            /\ fault' = fault
            /\ Goto("App._wait_for_folder_creation", [loc EXCEPT !.k = k, !.terminal = t])
       \/ \E e \in AnyFaults : fault' = e /\ Raise(e)
    /\ Same
    /\ UNCHANGED <<dispatcher, h, remote, pad, nextId, clock>>

App_wait_for_folder_creation ==
    Poll("App._wait_for_folder_creation", "check_import_status", "App.create_by_import_api.return")

App_create_by_import_api_return ==
    /\ pc = "App.create_by_import_api.return"
    /\ Return(loc.folder)
    /\ Same
    /\ UNCHANGED <<dispatcher, h, remote, pad, nextId, clock, trace, fault>>

\* ----------------------------------------------------------- dispatcher
\* Python values: a text (of characters, or one word), None, True and False
Str(t) == <<"str", t>>
PyNone == <<"None">>
PyTrue == <<"bool", "True">>
PyFalse == <<"bool", "False">>
NoEvent == [PhysicalResourceId |-> PyNone, ResourceProperties |-> <<>>]
NoOut == [op |-> "none"]
\* d.get(k)
Get(d, k) == IF k \in DOMAIN d THEN d[k] ELSE PyNone

\* --- ResourceFactory
ClassNames == {"AWSResource", "SumoResource", "Collector", "BaseSource", "App"}
\* class objects: a name may be registered again with another class
Classes == {"class_1", "class_2"}
undefined == "resource type is undefined"
Put(f, k, v) == [x \in DOMAIN f \cup {k} |-> IF x = k THEN v ELSE f[x]]

\* a register that stores under every name (a variant the registry property must reject)
registers_any(objname) == TRUE
\* objname not in ("SumoResource", "AWSResource")
registers(objname) == objname \notin {"SumoResource", "AWSResource"}

register ==
    /\ \E objname \in ClassNames, obj \in Classes :
        /\ resource_type' = IF registers(objname)
                            THEN Put(resource_type, objname, obj)
                            ELSE resource_type
        /\ registered' = Put(registered, objname, obj)
        /\ out' = [op |-> "register", objname |-> objname, kind |-> "empty", value |-> "-"]
    /\ UNCHANGED <<h, event, lifecycle>>

get_resource ==
    /\ \E objname \in ClassNames :
        out' = IF objname \in DOMAIN resource_type
               THEN [op |-> "get_resource", objname |-> objname,
                     kind |-> "result", value |-> resource_type[objname]]
               ELSE [op |-> "get_resource", objname |-> objname,
                     kind |-> "raise", value |-> undefined]
    /\ UNCHANGED <<h, resource_type, registered, event, lifecycle>>

\* ------------------------------------------------------- specification
Init ==
    /\ h \in Handlers
    /\ remote = {}
    /\ pad \in IF h \in ListingHandlers THEN {0, page_limit} ELSE {0}
    /\ nextId = 1
    /\ clock = 0
    /\ pc = "idle"
    /\ call = NoCall
    /\ loc = Locals
    /\ ret = Pending
    /\ prev = NoPrev
    /\ clean = TRUE
    /\ trace = <<>>
    /\ fault = NoErr
    /\ resource_type = <<>>
    /\ registered = <<>>
    /\ event = NoEvent
    /\ out = NoOut

Next ==
    \/ EnvCreate
    \/ EnvDelete
    \/ EnvModify
    \/ Tick
    \/ Collector_create
    \/ Collector_get_collector_by_name
    \/ Collector_update_fetch
    \/ Collector_update
    \/ Collector_delete
    \/ AWSSource_create
    \/ AWSSource_sources
    \/ AWSSource_update_fetch
    \/ AWSSource_update
    \/ AWSSource_delete
    \/ HTTPSource_create
    \/ HTTPSource_sources
    \/ HTTPSource_update_fetch
    \/ HTTPSource_update
    \/ HTTPSource_delete
    \/ Connections_create
    \/ Connections_update_fetch
    \/ Connections_update
    \/ Connections_delete
    \/ AWSTrail_create
    \/ AWSTrail_update
    \/ AWSTrail_start_logging
    \/ AWSTrail_delete
    \/ App_create_call
    \/ App_update
    \/ App_delete
    \/ App_create
    \/ is_enterprise_or_trial_account
    \/ is_enterprise_or_trial_account_status
    \/ App_get_personal_folder
    \/ App_create_or_fetch_quickstart_apps_parent_folder
    \/ App_install_app
    \/ App_wait_for_app_install
    \/ App_create_by_install_api
    \/ App_get_app_content
    \/ App_create_by_import_api
    \/ App_get_app_folder
    \/ App_import_content
    \/ App_wait_for_folder_creation
    \/ App_create_by_import_api_return

Spec == Init /\ [][Next]_vars

\* the lifecycle of an App resource that is created, and created again
InitApp == Init /\ h = "App"

NextApp ==
    \/ Tick
    \/ App_create_call
    \/ App_create
    \/ is_enterprise_or_trial_account
    \/ is_enterprise_or_trial_account_status
    \/ App_get_personal_folder
    \/ App_create_or_fetch_quickstart_apps_parent_folder
    \/ App_install_app
    \/ App_wait_for_app_install
    \/ App_create_by_install_api
    \/ App_get_app_content
    \/ App_create_by_import_api
    \/ App_get_app_folder
    \/ App_import_content
    \/ App_wait_for_folder_creation
    \/ App_create_by_import_api_return

SpecApp == InitApp /\ [][NextApp]_vars

\* --- extract_params
Chars == {"p", "a", "/"}
Texts == UNION {[1..n -> Chars] : n \in 0..MaxLen}
\* the events of the log platform's handlers: a physical id or none, and properties
SumoProps == {<<>>} \cup {[k \in {key} |-> Str(<<"a">>)] :
                            key \in {"CollectorName", "SourceName", "AppName", "connection_id"}}
SumoEvents == {[PhysicalResourceId |-> i, ResourceProperties |-> props] :
                  i \in {PyNone} \cup {Str(t) : t \in Texts}, props \in SumoProps}
\* the events of the trail handler: at most MaxProps properties
TrailKeys == {"S3BucketName", "S3KeyPrefix", "IncludeGlobalServiceEvents", "IsMultiRegionTrail",
              "EnableLogFileValidation", "IsOrganizationTrail", "TrailName", "ServiceToken"}
TrailValues == {Str("true"), Str("false"), Str("True"), Str(""), PyNone, PyTrue}
TrailProps == UNION {[keys -> TrailValues] :
                        keys \in {K \in SUBSET TrailKeys : Cardinality(K) <= MaxProps}}
TrailEvents == {[PhysicalResourceId |-> PyNone, ResourceProperties |-> props] : props \in TrailProps}

\* the dispatcher receives a lifecycle event for the handler
receive ==
    /\ event = NoEvent
    /\ event' \in IF h = "AWSTrail" THEN TrailEvents ELSE SumoEvents
    /\ out' = NoOut
    /\ UNCHANGED <<h, resource_type, registered, lifecycle>>

\* s.split(sep)
RECURSIVE split(_, _)
split(s, sep) ==
    IF \A i \in DOMAIN s : s[i] # sep
    THEN <<s>>
    ELSE LET i == CHOOSE j \in DOMAIN s : s[j] = sep /\ \A m \in 1..(j - 1) : s[m] # sep
         IN  <<SubSeq(s, 1, i - 1)>> \o split(SubSeq(s, i + 1, Len(s)), sep)

\* if event.get('PhysicalResourceId')
has_physical_id(e) == e.PhysicalResourceId # PyNone /\ e.PhysicalResourceId[2] # <<>>
Extracted(params) == [op |-> "extract_params", kind |-> "result", params |-> params]
ValueError == [op |-> "extract_params", kind |-> "raise", params |-> <<>>]

\* _, resource_id = event['PhysicalResourceId'].split("/"): the unpacking
\* needs two parts, and the second is the resource id; None without an id
parts(e) == IF has_physical_id(e) THEN split(e.PhysicalResourceId[2], "/") ELSE <<>>
unpacks(e) == has_physical_id(e) => Len(parts(e)) = 2
resource_id(e) == IF has_physical_id(e) /\ Len(parts(e)) = 2 THEN Str(parts(e)[2]) ELSE PyNone

\* extract_params of the handler hh: the dict it returns, or the ValueError
extract(hh, params) ==
    /\ h = hh
    /\ event # NoEvent
    /\ out' = IF unpacks(event) THEN Extracted(params) ELSE ValueError
    /\ UNCHANGED <<h, resource_type, registered, event, lifecycle>>

Collector_params(props, collector_id) ==
    [collector_type |-> Get(props, "CollectorType"), collector_name |-> Get(props, "CollectorName"),
     source_category |-> Get(props, "SourceCategory"), description |-> Get(props, "Description"),
     collector_id |-> collector_id]
Collector_extract_params ==
    extract("Collector", Collector_params(event.ResourceProperties, resource_id(event)))

\* the connection_id split off the physical id is not the one returned
Connections_params(props, connection_id) ==
    [type |-> Get(props, "Type"), name |-> Get(props, "Name"),
     description |-> Get(props, "Description"), url |-> Get(props, "URL"),
     username |-> Get(props, "UserName"), password |-> Get(props, "Password"),
     region |-> Get(props, "Region"), service_name |-> Get(props, "ServiceName"),
     webhook_type |-> Get(props, "WebhookType"), id |-> Get(props, "ConnectionId"),
     connection_id |-> Get(props, "connection_id")]
Connections_extract_params ==
    extract("Connections", Connections_params(event.ResourceProperties, resource_id(event)))

BaseSource_params(props, source_id) ==
    [collector_id |-> Get(props, "CollectorId"), source_name |-> Get(props, "SourceName"),
     source_id |-> source_id, props |-> props]
BaseSource_extract_params ==
    extract("AWSSource", BaseSource_params(event.ResourceProperties, resource_id(event)))

HTTPSource_params(props, source_id) ==
    [collector_id |-> Get(props, "CollectorId"), source_name |-> Get(props, "SourceName"),
     source_category |-> Get(props, "SourceCategory"), date_format |-> Get(props, "DateFormat"),
     date_locator |-> Get(props, "DateLocatorRegex"), source_id |-> source_id]
HTTPSource_extract_params ==
    extract("HTTPSource", HTTPSource_params(event.ResourceProperties, resource_id(event)))

App_params(props, app_folder_id) ==
    [appid |-> Get(props, "AppId"), appname |-> Get(props, "AppName"),
     source_params |-> Get(props, "AppSources"), app_folder_id |-> app_folder_id]
App_extract_params ==
    extract("App", App_params(event.ResourceProperties, resource_id(event)))

\* --- AWSTrail.extract_params
boolean_params == {"IncludeGlobalServiceEvents", "IsMultiRegionTrail",
                   "EnableLogFileValidation", "IsOrganizationTrail"}
parameters == {"S3BucketName", "S3KeyPrefix"} \cup boolean_params
\* the truth value of v in `v and ...`
truthy(v) == v \notin {PyNone, Str(""), PyFalse}
\* a transform that takes every true value for true (a variant the property must reject)
transform_truthy(k, v) ==
    IF k \in boolean_params THEN (IF truthy(v) THEN PyTrue ELSE PyFalse) ELSE v
\* True if v and v == "true" else False
transform_bool_values(k, v) ==
    IF k \in boolean_params
    THEN (IF truthy(v) /\ v = Str("true") THEN PyTrue ELSE PyFalse)
    ELSE v

AWSTrail_params(props) ==
    LET kept == DOMAIN props \cap parameters
        params == [k \in kept \cup {"Name"} |->
                     IF k = "Name" THEN Get(props, "TrailName")
                     ELSE transform_bool_values(k, props[k])]
    IN  [props |-> props, trail_name |-> Get(props, "TrailName"), params |-> params]

AWSTrail_extract_params ==
    /\ h = "AWSTrail"
    /\ event # NoEvent
    /\ out' = Extracted(AWSTrail_params(event.ResourceProperties))
    /\ UNCHANGED <<h, resource_type, registered, event, lifecycle>>

\* the dispatcher turns the events of one handler into call arguments
InitExtract == Init /\ pad = 0
NextExtract ==
    \/ receive
    \/ Collector_extract_params
    \/ Connections_extract_params
    \/ BaseSource_extract_params
    \/ HTTPSource_extract_params
    \/ App_extract_params
    \/ AWSTrail_extract_params
SpecExtract == InitExtract /\ [][NextExtract]_vars

\* creates of collectors, with the other clients that create and delete them
InitCollector == Init /\ h = "Collector"
NextCollector ==
    \/ EnvCreate
    \/ EnvDelete
    \/ Collector_create
    \/ Collector_get_collector_by_name
SpecCollector == InitCollector /\ [][NextCollector]_vars

\* updates of the entities that other clients have created
InitUpdate == Init /\ h \in {"Collector", "HTTPSource", "App"} /\ pad = 0
NextUpdate ==
    \/ EnvCreate
    \/ Collector_update_fetch
    \/ Collector_update
    \/ HTTPSource_update_fetch
    \/ HTTPSource_update
    \/ App_update
    \/ App_create
    \/ is_enterprise_or_trial_account
    \/ is_enterprise_or_trial_account_status
    \/ App_get_personal_folder
    \/ App_create_or_fetch_quickstart_apps_parent_folder
    \/ App_install_app
    \/ App_wait_for_app_install
    \/ App_create_by_install_api
    \/ App_get_app_content
    \/ App_create_by_import_api
    \/ App_get_app_folder
    \/ App_import_content
    \/ App_wait_for_folder_creation
    \/ App_create_by_import_api_return
SpecUpdate == InitUpdate /\ [][NextUpdate]_vars

\* the registry, filled by the class definitions and read by the dispatcher
InitRegistry == Init /\ pad = 0
NextRegistry == register \/ get_resource
SpecRegistry == InitRegistry /\ [][NextRegistry]_vars

\* ------------------------------------------------------------ properties
\* the errors by which the remote refuses a name that is taken
Collisions == {duplicate, name_already_exists, duplicate_content, "TrailAlreadyExistsException"}
Done == pc = "idle" /\ ret.kind # "none"
Requests(S) == {i \in DOMAIN trace : trace[i] \in S}

\* C1: a create of the name X that follows a create of X, with no other
\* client in between and no fault but the remote's refusal of the taken name,
\* returns the identifier the first one returned, and makes the remote create
\* nothing.
C1_CreateTwice ==
    (Done /\ call.op = "create" /\ prev.op = "create" /\ clean
          /\ (fault = NoErr \/ fault.code \in Collisions))
    => (ret.kind = "result" /\ ret.id = prev.id /\ nextId = prev.nextId)

\* C2: a delete called with remove_on_delete_stack = False issues no remote
\* request and leaves the remote objects as they are.
C2_DeleteFlagFalse ==
    [][(pc = "idle" /\ pc' = "idle" /\ clean' /\ call'.op = "delete" /\ ~call'.rods
            /\ <<call, ret, trace, remote>>' # <<call, ret, trace, remote>>)
       => (trace' = <<>> /\ remote' = remote)]_vars

\* C3: a delete called with remove_on_delete_stack = True that the remote
\* answers with "not found" completes normally, without raising.
C3_DeleteNotFound ==
    (Done /\ call.op = "delete" /\ call.rods /\ fault \in {NotFound, TrailNotFound})
    => ret.kind = "empty"

\* C4: a create that the remote answered with an error response other than
\* the refusal of a taken name ends by raising that error; it does not return.
C4_OtherErrorsRaise ==
    (Done /\ call.op = "create" /\ fault.resp = "http" /\ fault.code \notin Collisions)
    => (ret.kind = "raise" /\ ret.err = fault)

\* C5: when the create of a collector or a source was refused for a taken
\* name and the remote holds no object of that name when the listing is
\* read, the call does not end unless by raising.
C5_NotFoundAfterCollision ==
    [][(/\ pc \in {"Collector._get_collector_by_name", "AWSSource.sources", "HTTPSource.sources"}
        /\ fault' = fault
        /\ ByName(call.name) = {}
        /\ pc' = "idle")
       => ret'.kind = "raise"]_vars

\* C6: against a status endpoint that answers InProgress k times and then a
\* terminal status, the loop has polled at most k times while it waits, every
\* status it went on after was InProgress, and it is left after exactly k+1
\* polls with the terminal status in hand.
Polled(request) == Cardinality(Requests({request}))
C6_PollsUntilTerminal ==
    /\ pc \in {"App._wait_for_app_install", "App._wait_for_folder_creation"}
        => /\ loc.polls <= loc.k
           /\ loc.polls > 0 => loc.status = "InProgress"
    /\ pc = "App.create_by_install_api"
        => /\ loc.polls = loc.k + 1
           /\ Polled("check_app_install_status") = loc.k + 1
           /\ loc.status = loc.terminal
           /\ loc.status \in {"Success", "Failed"}
    /\ pc = "App.create_by_import_api.return"
        => /\ loc.polls = loc.k + 1
           /\ Polled("check_import_status") = loc.k + 1
           /\ loc.status = loc.terminal

\* the status endpoint answered InProgress, InProgress, Success: three polls
C6_ThreePolls ==
    /\ pc = "App.create_by_install_api"
    /\ loc.k = 2
    /\ loc.status = "Success"
    /\ Polled("check_app_install_status") = 3

\* C7: an App.create by the install api whose job ended Failed ends by
\* raising, whatever the HTTP status of the last poll.
C7_FailedRaises ==
    [][(pc = "App.create_by_install_api" /\ call.op = "create" /\ loc.status = "Failed"
            /\ pc' = "idle")
       => ret'.kind = "raise"]_vars

\* C8: when the search client fails with a 403 the probe answers False (the
\* create ends as not entitled); when it fails with any other error, the
\* probe raises that error.
C8_ProbeErrors ==
    [][(pc \in {"SumoResource.search_job", "SumoResource.search_job_status"} /\ fault' # NoErr)
       => IF fault'.resp = "http" /\ fault'.status = 403
          THEN ret' = [kind |-> "raise", id |-> None, err |-> NotEntitled]
          ELSE ret' = [kind |-> "raise", id |-> None, err |-> fault']]_vars

\* C9: the create of an enterprise-only app issues the probe before any other
\* request; a create that ends as not entitled has issued no request but the
\* probe's; the create of any other app never issues the probe.
ProbeRequests == {"search_job", "search_job_status"}
C9_ProbeFirst ==
    /\ (call.op = "create" /\ call.name \in ENTERPRISE_ONLY_APPS /\ trace # <<>>)
        => trace[1] = "search_job"
    /\ (call.op = "create" /\ ret.kind = "raise" /\ ret.err = NotEntitled)
        => Requests(ProbeRequests) = DOMAIN trace
    /\ (call.op = "create" /\ call.name \notin ENTERPRISE_ONLY_APPS)
        => Requests(ProbeRequests) = {}

\* the probe answered with pending errors, and the create ended not entitled
C9_NotEntitled ==
    /\ Done
    /\ call.op = "create"
    /\ call.name \in ENTERPRISE_ONLY_APPS
    /\ ret.err = NotEntitled
    /\ trace = <<"search_job", "search_job_status">>
    /\ fault = NoErr

\* C10: an update that fetched the entity with its token writes it back
\* through the update operation of that kind of entity, and an update whose
\* write the remote rejected for a stale token ends by raising that error.
WriteOf(fetch) ==
    CASE fetch = "collector" -> "update_collector"
      [] fetch = "source" -> "update_source"
      [] fetch = "connection" -> "update_connection"
C10_UpdateWritesBack ==
    /\ (call.op = "update" /\ h \in EtagHandlers /\ Len(trace) >= 2)
        => trace = <<trace[1], WriteOf(trace[1])>>
    /\ (Done /\ call.op = "update" /\ h \in EtagHandlers /\ fault = Stale)
        => (ret.kind = "raise" /\ ret.err = Stale)
\* C11: the registry never holds AWSResource or SumoResource; every other name
\* handed to register maps to the class it was last registered with, and no
\* other name is held; get_resource answers with the class held under the
\* name, or raises "resource type is undefined" when none is, and leaves the
\* registry as it is.
ReservedNames == {"SumoResource", "AWSResource"}
RegistryHolds ==
    /\ DOMAIN resource_type = DOMAIN registered \ ReservedNames
    /\ \A n \in DOMAIN resource_type : resource_type[n] = registered[n]
    /\ out.op = "get_resource"
        => IF out.objname \in DOMAIN resource_type
           THEN out.kind = "result" /\ out.value = resource_type[out.objname]
           ELSE out.kind = "raise" /\ out.value = undefined
C11_Registry ==
    /\ []RegistryHolds
    /\ [][out'.op = "get_resource" => resource_type' = resource_type]_vars

\* Collector and App are held, SumoResource was handed to register, and a
\* get_resource of a name that is not held has raised
C11_Registered ==
    /\ "SumoResource" \in DOMAIN registered
    /\ "Collector" \in DOMAIN resource_type
    /\ resource_type["Collector"] = "class_2"
    /\ "App" \in DOMAIN resource_type
    /\ out.op = "get_resource"
    /\ out.kind = "raise"

\* C12: for the handlers of the log platform, extract_params of an event whose
\* PhysicalResourceId is a non-empty prefix, one "/" and a non-empty remote id
\* gives the handler's resource-id parameter the remote id, and of an event
\* without a PhysicalResourceId gives it None (the events taken are those
\* whose properties name no connection_id of their own).
IdParam ==
    [Collector |-> "collector_id", Connections |-> "connection_id", AWSSource |-> "source_id",
     HTTPSource |-> "source_id", App |-> "app_folder_id"]
Slashes(t) == {i \in DOMAIN t : t[i] = "/"}
AfterSlash(t) == SubSeq(t, (CHOOSE i \in Slashes(t) : TRUE) + 1, Len(t))
C12_ResourceId ==
    (h # "AWSTrail" /\ out.op = "extract_params"
        /\ "connection_id" \notin DOMAIN event.ResourceProperties)
    => /\ event.PhysicalResourceId = PyNone
           => (out.kind = "result" /\ out.params[IdParam[h]] = PyNone)
       /\ (event.PhysicalResourceId # PyNone
              /\ Cardinality(Slashes(event.PhysicalResourceId[2])) = 1
              /\ Slashes(event.PhysicalResourceId[2]) \cap {1, Len(event.PhysicalResourceId[2])} = {})
           => /\ out.kind = "result"
              /\ out.params[IdParam[h]] = Str(AfterSlash(event.PhysicalResourceId[2]))

\* C13: AWSTrail.extract_params gives each of the four boolean parameters that
\* the properties hold True when its value is the text "true" and False for
\* any other value, passes S3BucketName and S3KeyPrefix on as they are, keeps
\* no other property, and sets Name to TrailName.
C13_BoolValues ==
    (h = "AWSTrail" /\ out.op = "extract_params")
    => LET props == event.ResourceProperties
           params == out.params.params
           bools == {"IncludeGlobalServiceEvents", "IsMultiRegionTrail",
                     "EnableLogFileValidation", "IsOrganizationTrail"}
           plain == {"S3BucketName", "S3KeyPrefix"}
       IN  /\ out.kind = "result"
           /\ DOMAIN params = (DOMAIN props \cap (bools \cup plain)) \cup {"Name"}
           /\ \A k \in DOMAIN props \cap bools :
                params[k] = IF props[k] = Str("true") THEN PyTrue ELSE PyFalse
           /\ \A k \in DOMAIN props \cap plain : params[k] = props[k]
           /\ params["Name"] = IF "TrailName" \in DOMAIN props THEN props["TrailName"] ELSE PyNone
           /\ out.params.trail_name = params["Name"]

\* "true" became True and "True" became False
C13_TrueAndOther ==
    /\ h = "AWSTrail"
    /\ out.op = "extract_params"
    /\ DOMAIN event.ResourceProperties = {"IsMultiRegionTrail", "IsOrganizationTrail"}
    /\ event.ResourceProperties["IsMultiRegionTrail"] = Str("true")
    /\ event.ResourceProperties["IsOrganizationTrail"] = Str("True")
    /\ out.params.params["IsMultiRegionTrail"] = PyTrue
    /\ out.params.params["IsOrganizationTrail"] = PyFalse

\* C14: when the parent folder helper returns, it returns an id; when it
\* returns after create_folder failed, the failure was the duplicate-content
\* error and the id is that of the child of the personal folder that bears
\* the folder's name.
C14_ParentFolderId ==
    [][(pc = "App._create_or_fetch_quickstart_apps_parent_folder" /\ pc' = "App.install_app")
       => /\ loc'.parent # None
          /\ fault' # fault
              => /\ fault'.code = duplicate_content
                 /\ \E c \in loc.children :
                        c.name = <<qs_folder_name, loc.stamp>> /\ c.id = loc'.parent]_vars

\* C15: after a collision the collectors are listed at the offsets 0, 300,
\* 600, ...; while no other client acts, no page is asked for beyond the first
\* empty one, and a create that ends with no fault but the collision returns
\* the id of the collector of that name, having read the pages up to the one
\* that holds it and no further.
C15_CollisionLookup ==
    /\ pc = "Collector._get_collector_by_name"
        => /\ fault.code = duplicate
           /\ loc.offset = page_limit * Polled("collectors")
           /\ (clean /\ loc.offset > 0) => loc.offset - page_limit < ListingLen
    /\ (Done /\ h = "Collector" /\ call.op = "create" /\ clean /\ fault.code = duplicate)
        => /\ ret.kind = "result"
           /\ \E o \in ByName(call.name) :
                /\ ret.id = o.id
                /\ Polled("collectors") = (Position(o) \div page_limit) + 1

\* the collector was found on the second page, at offset 300
C15_SecondPage ==
    /\ Done
    /\ h = "Collector"
    /\ call.op = "create"
    /\ clean
    /\ pad = page_limit
    /\ fault.code = duplicate
    /\ ret.kind = "result"
    /\ trace = <<"create_collector", "collectors", "collectors">>

\* C16: a create or an update that ends without raising, having met no fault
\* but the remote's refusal of a taken name, returns a result whose id is not
\* None and, while no other client has acted, is the id of a remote object.
C16_PhysicalId ==
    (Done /\ call.op \in {"create", "update"} /\ ret.kind # "raise"
          /\ (fault = NoErr \/ fault.code \in Collisions))
    => /\ ret.kind = "result"
       /\ ret.id # None
       /\ clean => Exists(ret.id)

\* C17: an update of a collector or an HTTP source that returns, returns the
\* id it was called with; every update of an app asks first for the deletion
\* of the folder it was called with, and once it has gone on to the create
\* that folder is gone, the id it returns (if it returns) is another one, and
\* if it raises nothing is returned in the folder's place.
C17_UpdateIdentity ==
    /\ (Done /\ call.op = "update" /\ h \in {"Collector", "HTTPSource"} /\ ret.kind = "result")
        => ret.id = call.id
    /\ (h = "App" /\ call.op = "update")
        => /\ trace # <<>>
           /\ trace[1] = "delete_folder"
           /\ Requests({"delete_folder"}) = {1}
           /\ (pc # "idle" \/ Len(trace) > 1 \/ ret.kind # "raise") => ~Exists(call.id)
           /\ Done => ((ret.kind = "raise" /\ ret.id = None)
                        \/ (ret.kind = "result" /\ ret.id # call.id))

\* an app update whose create failed after the folder was deleted
C17_CreateFailed ==
    /\ Done
    /\ h = "App"
    /\ call.op = "update"
    /\ ret.kind = "raise"
    /\ Len(trace) > 2
    /\ ~Exists(call.id)
    /\ remote = {}
====
